---- MODULE Spec2Model ----
(***************************************************************************)
(* A model of cadima_pdf_finder.py: read_references, search_unpaywall,     *)
(* search_pubmed, download_pdf and the per-reference loop of main.         *)
(*                                                                         *)
(* Text the program inspects character by character (DOI cells, links,     *)
(* column headers, URLs, content types, file names) is a sequence of       *)
(* one-character strings.  Labels and messages the program builds from     *)
(* literals are TLA+ strings.  A Python value that may be None is a        *)
(* sequence of length 0 (None) or 1 (the value).                           *)
(***************************************************************************)
EXTENDS Integers, Sequences, FiniteSets, TLC

----------------------------------------------------------------------------
(* Python values *)

None == <<>>
Some(x) == <<x>>

\* Python truthiness of an optional text: None and '' are falsy.
Truthy(v) == v # None /\ v[1] # <<>>

\* a or b
PyOr(a, b) == IF Truthy(a) THEN a ELSE b

----------------------------------------------------------------------------
(* Text helpers: str.strip, str.lower, startswith, endswith, in, replace   *)

\* The text of the model is over the characters chr(0)..chr(255).  The
\* characters of that range str.lower() changes, and what it makes of them:
\* A-Z and the Latin-1 letters 0xc0-0xde but the multiplication sign 0xd7.
UpperChars == <<"A","B","C","D","E","F","G","H","I","J","K","L","M","N","O","P","Q","R","S","T","U","V","W","X","Y","Z",
                "À","Á","Â","Ã","Ä","Å","Æ","Ç","È","É","Ê","Ë","Ì","Í","Î",
                "Ï","Ð","Ñ","Ò","Ó","Ô","Õ","Ö","Ø","Ù","Ú","Û","Ü","Ý","Þ">>
LowerChars == <<"a","b","c","d","e","f","g","h","i","j","k","l","m","n","o","p","q","r","s","t","u","v","w","x","y","z",
                "à","á","â","ã","ä","å","æ","ç","è","é","ê","ë","ì","í","î",
                "ï","ð","ñ","ò","ó","ô","õ","ö","ø","ù","ú","û","ü","ý","þ">>
Digits == {"0","1","2","3","4","5","6","7","8","9"}
\* The characters of chr(0)..chr(255) str.strip() removes (str.isspace):
\* space, tab, newline, carriage return, form feed, vertical tab, the
\* separators 0x1c-0x1f, next line 0x85 and the no-break space 0xa0.
Whitespace == {" ", "\t", "\n", "\r", "\f", "", "", "", "", "", "", " "}

\* str.lower() of one character.
LowerOf == [c \in {UpperChars[k] : k \in 1..Len(UpperChars)} |->
              LowerChars[CHOOSE k \in 1..Len(UpperChars) : UpperChars[k] = c]]

LowerChar(c) == IF c \in DOMAIN LowerOf THEN LowerOf[c] ELSE c

Lower(s) == [k \in 1..Len(s) |-> LowerChar(s[k])]

RECURSIVE LStrip(_)
LStrip(s) == IF s # <<>> /\ s[1] \in Whitespace THEN LStrip(Tail(s)) ELSE s

RECURSIVE RStrip(_)
RStrip(s) ==
    IF s # <<>> /\ s[Len(s)] \in Whitespace THEN RStrip(SubSeq(s, 1, Len(s) - 1)) ELSE s

Strip(s) == RStrip(LStrip(s))

StartsWith(s, p) == Len(s) >= Len(p) /\ SubSeq(s, 1, Len(p)) = p

EndsWith(s, p) == Len(s) >= Len(p) /\ SubSeq(s, Len(s) - Len(p) + 1, Len(s)) = p

\* p in s
Contains(s, p) ==
    \E k \in 1..(Len(s) - Len(p) + 1) : SubSeq(s, k, k + Len(p) - 1) = p

\* s.replace(a, b) for single characters a, b
Replace(s, a, b) == [k \in 1..Len(s) |-> IF s[k] = a THEN b ELSE s[k]]

\* The text as one string, for messages built with f-strings.
RECURSIVE Join(_)
Join(s) == IF s = <<>> THEN "" ELSE s[1] \o Join(Tail(s))

----------------------------------------------------------------------------
(* Literals of the program *)

test_doi == <<"1","0",".","1","0","3","8","/","s","4","1","5","8","6","-","0","2","0","-","2","6","4","9","-","2">>
LinkToPdfHeader == <<"L","i","n","k"," ","t","o"," ","P","D","F">>
DoiLit == <<"d","o","i">>
HttpPrefix == <<"h","t","t","p",":","/","/">>
HttpsPrefix == <<"h","t","t","p","s",":","/","/">>
PdfSuffix == <<".","p","d","f">>
PdfsDir == <<"p","d","f","s","/">>
PdfSignature == <<"%","P","D","F">>
NanText == <<"n","a","n">>
allowed_types ==
    << <<"p","d","f">>,
       <<"o","c","t","e","t","-","s","t","r","e","a","m">>,
       <<"b","i","n","a","r","y">>,
       <<"d","o","w","n","l","o","a","d">> >>
MinPdfSize == 1000
MinDoiDigits == 4
HttpOk == 200

----------------------------------------------------------------------------
(* read_references *)

\* The length of the run of digits of s that starts at position k.
RECURSIVE DigitRun(_, _)
DigitRun(s, k) ==
    IF k <= Len(s) /\ s[k] \in Digits THEN 1 + DigitRun(s, k + 1) ELSE 0

\* The pattern 10\.\d{4,}[/.].+ matches at position k of s.  The pattern is
\* compiled without DOTALL: '.' is any character but a newline.
DoiMatchesAt(s, k) ==
    /\ k + 2 <= Len(s)
    /\ s[k] = "1" /\ s[k + 1] = "0" /\ s[k + 2] = "."
    /\ LET n == DigitRun(s, k + 3)
       IN /\ n >= MinDoiDigits
          /\ k + 3 + n <= Len(s)
          /\ s[k + 3 + n] \in {"/", "."}
          /\ k + 3 + n + 1 <= Len(s)
          /\ s[k + 3 + n + 1] # "\n"

\* The last position of the run of characters other than a newline that
\* holds position j: where a greedy '.+' that starts at j stops.
RECURSIVE LineEnd(_, _)
LineEnd(s, j) ==
    IF j + 1 <= Len(s) /\ s[j + 1] # "\n" THEN LineEnd(s, j + 1) ELSE j

\* .str.extract(r'(10\.\d{4,}[/.].+)'): the leftmost match, which runs to
\* the end of its line; None (NaN) when there is none.
ExtractDoi(s) ==
    IF \E k \in 1..Len(s) : DoiMatchesAt(s, k)
    THEN LET k == CHOOSE j \in 1..Len(s) :
                    /\ DoiMatchesAt(s, j)
                    /\ \A h \in 1..(j - 1) : ~DoiMatchesAt(s, h)
         IN Some(SubSeq(s, k, LineEnd(s, k + 3 + DigitRun(s, k + 3) + 1)))
    ELSE None

\* .astype(str).str.strip() of a cell; an empty cell (NaN) becomes 'nan'.
CellText(cell) == IF cell = None THEN NanText ELSE Strip(cell[1])

\* Lines 42-50: the fallback link of a retained row.
CleanLink(cell) ==
    IF cell = None
    THEN None
    ELSE LET link == Strip(cell[1])
         IN IF link # <<>> /\ (StartsWith(link, HttpPrefix) \/ StartsWith(link, HttpsPrefix))
            THEN Some(link)
            ELSE None

\* Line 23: the first column whose header contains 'doi'; 0 when none does.
DoiColumn(headers) ==
    IF \E k \in 1..Len(headers) : Contains(Lower(Strip(headers[k])), DoiLit)
    THEN CHOOSE k \in 1..Len(headers) :
            /\ Contains(Lower(Strip(headers[k])), DoiLit)
            /\ \A h \in 1..(k - 1) : ~Contains(Lower(Strip(headers[h])), DoiLit)
    ELSE 0

\* Line 39: the column named 'Link to PDF'; 0 when there is none.
LinkColumn(headers) ==
    IF \E k \in 1..Len(headers) : headers[k] = LinkToPdfHeader
    THEN CHOOSE k \in 1..Len(headers) : headers[k] = LinkToPdfHeader
    ELSE 0

\* Lines 32-50: the DOIs of the rows whose cell matches, and their links.
RECURSIVE KeptDois(_, _)
KeptDois(rows, dc) ==
    IF rows = <<>>
    THEN <<>>
    ELSE LET d == ExtractDoi(CellText(Head(rows)[dc]))
         IN (IF d = None THEN <<>> ELSE <<d[1]>>) \o KeptDois(Tail(rows), dc)

RECURSIVE KeptLinks(_, _, _)
KeptLinks(rows, dc, lc) ==
    IF rows = <<>>
    THEN <<>>
    ELSE LET d == ExtractDoi(CellText(Head(rows)[dc]))
             l == IF lc = 0 THEN None ELSE CleanLink(Head(rows)[lc])
         IN (IF d = None THEN <<>> ELSE <<l>>) \o KeptLinks(Tail(rows), dc, lc)

\* read_references(file_path): (len(df), dois, pdf_links).
read_references(file) ==
    IF ~file.readable
    THEN [df_len |-> 0, dois |-> <<>>, pdf_links |-> <<>>]
    ELSE LET dc == DoiColumn(file.headers)
             lc == LinkColumn(file.headers)
         IN IF dc = 0
            THEN [df_len |-> Len(file.rows), dois |-> <<>>, pdf_links |-> <<>>]
            ELSE [df_len |-> Len(file.rows),
                  dois |-> KeptDois(file.rows, dc),
                  pdf_links |-> KeptLinks(file.rows, dc, lc)]

----------------------------------------------------------------------------
(* search_unpaywall *)

\* dict.get(key) on one open-access location.
LocUrl(loc) == PyOr(loc.url_for_pdf, loc.url)

\* Lines 79-82: next((... for loc in oa_locations if ...), None).
RECURSIVE FirstLocUrl(_)
FirstLocUrl(locs) ==
    IF locs = <<>>
    THEN None
    ELSE IF Truthy(LocUrl(Head(locs))) THEN LocUrl(Head(locs)) ELSE FirstLocUrl(Tail(locs))

\* Lines 76-83 raise (and line 93 catches) when best_oa_location or
\* oa_locations is present with the value null: None has no .get and is not
\* iterable.  A missing key takes the default ({} or []).
UnpaywallRaises(data) ==
    \/ data.best.kind = "null"
    \/ /\ ~Truthy(data.best.url_for_pdf)
       /\ ~Truthy(data.best.url)
       /\ data.oa_kind = "null"

\* Lines 76-83, when nothing raises.
UnpaywallPick(data) ==
    PyOr(data.best.url_for_pdf, PyOr(data.best.url, FirstLocUrl(data.oa_locations)))

\* search_unpaywall(doi), given the outcome of requests.get.
search_unpaywall(resp) ==
    IF resp.kind = "exception" THEN None
    ELSE IF resp.status # HttpOk THEN None
    ELSE IF ~resp.json_ok THEN None
    ELSE IF ~resp.data.is_oa THEN None
    ELSE IF UnpaywallRaises(resp.data) THEN None
    ELSE IF Truthy(UnpaywallPick(resp.data)) THEN UnpaywallPick(resp.data)
    ELSE None

----------------------------------------------------------------------------
(* search_pubmed *)

\* Lines 107-113.
PubmedUrl(data) ==
    LET pdf_url == PyOr(data.full_text_url, data.pdf_url)
    IN IF Truthy(pdf_url)
       THEN IF ~EndsWith(Lower(pdf_url[1]), PdfSuffix)
            THEN Some(pdf_url[1] \o PdfSuffix)
            ELSE pdf_url
       ELSE None

\* search_pubmed(doi), given the outcome of requests.get.
search_pubmed(resp) ==
    IF resp.kind = "exception" THEN None
    ELSE IF resp.status # HttpOk THEN None
    ELSE IF ~resp.json_ok THEN None
    ELSE PubmedUrl(resp.data)

----------------------------------------------------------------------------
(* download_pdf *)

\* The file system: a function from the paths that exist to their files.  A
\* file is its size and its first bytes (at most four).
Exists(files, path) == path \in DOMAIN files

WriteFile(files, path, body) ==
    [p \in (DOMAIN files) \cup {path} |-> IF p = path THEN body ELSE files[p]]

RemoveFile(files, path) == [p \in (DOMAIN files) \ {path} |-> files[p]]

\* Line 138: any(t in content_type for t in allowed_types).
AllowedType(content_type) ==
    \E k \in 1..Len(allowed_types) : Contains(content_type, allowed_types[k])

\* An outcome of download_pdf.  raised: the call did not return, an
\* exception left it.
Outcome(files, success, message, branch) ==
    [fs |-> files, success |-> success, message |-> message, branch |-> branch,
     raised |-> FALSE]

\* Line 174, when the os.remove of the handler raises: nothing catches it,
\* the exception leaves download_pdf and the file stays.
Raised(files) ==
    [fs |-> files, success |-> FALSE, message |-> "", branch |-> "raised", raised |-> TRUE]

\* Lines 172-178: the handler of an exception raised inside the try.
DownloadFailed(files, save_path, text, io) ==
    IF Exists(files, save_path)
    THEN IF io.handler_remove_fails
         THEN Raised(files)
         ELSE Outcome(RemoveFile(files, save_path), FALSE, "Download error: " \o text,
                      "exception")
    ELSE Outcome(files, FALSE, "Download error: " \o text, "exception")

\* Lines 141-142 and 146-149, when they raise: open() raised and the files
\* are as before, or a write raised after open() had truncated the file.
WriteFailed(files, save_path, io) ==
    IF io.write = "open_raises"
    THEN DownloadFailed(files, save_path, "open failed", io)
    ELSE DownloadFailed(WriteFile(files, save_path, [size |-> 0, head |-> <<>>]),
                        save_path, "write failed", io)

\* Lines 140-144: a 200 response whose content type is not an allowed one.
UnknownTypeBranch(files, save_path, resp, content_type, io) ==
    IF resp.body.size > MinPdfSize
    THEN IF io.write # "ok"
         THEN WriteFailed(files, save_path, io)
         ELSE Outcome(WriteFile(files, save_path, resp.body), TRUE,
                      "Successfully downloaded (unknown content type)", "unknown_type")
    ELSE Outcome(files, FALSE,
                 "Not a PDF file (content-type: " \o Join(content_type) \o ")", "not_pdf")

\* A size check that lets a 999-byte file through.
TooSmall_Mutant(file_size) == file_size < MinPdfSize - 1

\* Line 155.
TooSmall(file_size) == file_size < MinPdfSize

\* Lines 146-169: the body is written, then checked.  The os.remove of line
\* 156 is inside the outer try: when it raises, the handler of line 172 runs
\* with the file in place and calls os.remove again (line 174), which may
\* work this time.  The try of line 161 catches everything, the
\* os.remove of line 166 included: when the signature check or that
\* os.remove raises, the file stays and the call reports success.
StreamBranch(files, save_path, resp, io) ==
    IF io.write # "ok"
    THEN WriteFailed(files, save_path, io)
    ELSE LET written == WriteFile(files, save_path, resp.body)
         IN IF TooSmall(written[save_path].size)
            THEN IF io.remove_fails
                 THEN DownloadFailed(written, save_path, "remove failed", io)
                 ELSE Outcome(RemoveFile(written, save_path), FALSE,
                              "Downloaded file too small", "too_small")
            ELSE IF io.sig_fails
            THEN Outcome(written, TRUE,
                         "Successfully downloaded (signature check failed)", "sig_check_failed")
            ELSE IF StartsWith(written[save_path].head, PdfSignature)
            THEN Outcome(written, TRUE, "Successfully downloaded", "ok")
            ELSE IF io.remove_fails
            THEN Outcome(written, TRUE,
                         "Successfully downloaded (signature check failed)", "sig_check_failed")
            ELSE Outcome(RemoveFile(written, save_path), FALSE,
                         "Not a valid PDF file", "bad_signature")

\* A non-200 status handled like an exception: the file at the path is removed.
HttpErrorBranch_Mutant(files, save_path, resp) ==
    Outcome(IF Exists(files, save_path) THEN RemoveFile(files, save_path) ELSE files,
            FALSE, "Download error: status " \o ToString(resp.status), "exception")

\* Lines 170-171: the status is not 200.
HttpErrorBranch(files, save_path, resp) ==
    Outcome(files, FALSE, "HTTP error: " \o ToString(resp.status), "http_error")

\* download_pdf(url, save_path), given the outcome of requests.get and of
\* the file operations.
download_pdf(files, save_path, resp, io) ==
    IF resp.kind = "exception"
    THEN DownloadFailed(files, save_path, resp.error, io)
    ELSE IF resp.status = HttpOk
    THEN LET content_type == Lower(resp.content_type)
         IN IF ~AllowedType(content_type)
            THEN UnknownTypeBranch(files, save_path, resp, content_type, io)
            ELSE StreamBranch(files, save_path, resp, io)
    ELSE HttpErrorBranch(files, save_path, resp)

\* Line 242: pdfs/{doi.replace('/', '_')}.pdf
Filename(doi) == PdfsDir \o Replace(doi, "/", "_") \o PdfSuffix

----------------------------------------------------------------------------
(* Inputs: spreadsheets and responses *)

MaxRows == 2

CellD1 == <<"\t","1","0",".","1","0","0","0","/","a","/","b"," ","\n">>
CellD2 == <<"1","0",".","1","0","0","0","/","a","_","b","\n","x">>
CellBad == <<"n","/","a">>
LinkF == <<" ","h","t","t","p","s",":","/","/","f",""," ">>
LinkFtp == <<"f","t","p",":","/","/","x">>
HdrDoi == <<" ","D","o","i">>
HdrTitle == <<"T","i","t","l","e">>

\* Rows of a sheet with the columns (DOI, Link to PDF).
SheetRows ==
    { <<Some(CellD1), Some(LinkF)>>,
      <<Some(CellD2), Some(LinkFtp)>>,
      <<Some(CellBad), Some(LinkF)>>,
      <<Some(test_doi), None>> }

RowsUpTo(n) == UNION { [1..k -> SheetRows] : k \in 0..n }

Files ==
    { [readable |-> FALSE, headers |-> <<>>, rows |-> <<>>] }
    \cup { [readable |-> TRUE, headers |-> <<HdrTitle, LinkToPdfHeader>>, rows |-> r] :
             r \in RowsUpTo(1) }
    \cup { [readable |-> TRUE, headers |-> <<HdrDoi, LinkToPdfHeader>>, rows |-> r] :
             r \in RowsUpTo(MaxRows) }
    \cup { [readable |-> TRUE, headers |-> <<HdrDoi, HdrTitle>>, rows |-> r] :
             r \in RowsUpTo(1) }

UrlA1 == <<"h","t","t","p",":","/","/","a","/","1",".","p","d","f">>
UrlA2 == <<"h","t","t","p",":","/","/","a","/","2">>
UrlA3 == <<"h","t","t","p",":","/","/","a","/","3">>
UrlA4 == <<"h","t","t","p",":","/","/","a","/","4">>
UrlB1 == <<"h","t","t","p",":","/","/","b","/","1">>
UrlB2 == <<"h","t","t","p",":","/","/","b","/","2",".","P","D","F">>

NoBest == [kind |-> "missing", url_for_pdf |-> None, url |-> None]
NullBest == [kind |-> "null", url_for_pdf |-> None, url |-> None]
NoData == [is_oa |-> FALSE, best |-> NoBest, oa_kind |-> "missing", oa_locations |-> <<>>]

\* Values of a URL field of a JSON object: missing or null, '', a URL.
FieldValues(u) == {None, Some(<<>>), Some(u)}

BestLocations ==
    {NoBest, NullBest}
    \cup { [kind |-> "dict", url_for_pdf |-> p, url |-> u] :
             p \in FieldValues(UrlA1), u \in FieldValues(UrlA2) }

OaLocations ==
    { [url_for_pdf |-> p, url |-> u] :
        p \in {None, Some(UrlA3)}, u \in {None, Some(<<>>), Some(UrlA4)} }

OaLocationLists ==
    { <<>> } \cup { <<a>> : a \in OaLocations }
    \cup { <<a, b>> : a \in OaLocations, b \in OaLocations }

UnpaywallData ==
    { [is_oa |-> o, best |-> b, oa_kind |-> "list", oa_locations |-> l] :
        o \in BOOLEAN, b \in BestLocations, l \in OaLocationLists }
    \cup { [is_oa |-> TRUE, best |-> b, oa_kind |-> k, oa_locations |-> <<>>] :
        b \in BestLocations, k \in {"missing", "null"} }

HttpException(text) ==
    [kind |-> "exception", error |-> text, status |-> 0, json_ok |-> FALSE, data |-> NoData]

UnpaywallResponses ==
    { HttpException("timeout") }
    \cup { [kind |-> "response", error |-> "", status |-> 404, json_ok |-> FALSE, data |-> NoData],
           [kind |-> "response", error |-> "", status |-> HttpOk, json_ok |-> FALSE, data |-> NoData] }
    \cup { [kind |-> "response", error |-> "", status |-> HttpOk, json_ok |-> TRUE, data |-> d] :
             d \in UnpaywallData }

\* The Service A responses the run of main is checked with.
UnpaywallResponsesMain ==
    { r \in UnpaywallResponses :
        \/ r.status = 404
        \/ /\ r.json_ok /\ r.data.is_oa /\ r.data.oa_locations = <<>> /\ r.data.oa_kind = "list"
           /\ r.data.best \in {NoBest, [kind |-> "dict", url_for_pdf |-> Some(UrlA1), url |-> None]} }

NoPubmedData == [full_text_url |-> None, pdf_url |-> None]

PubmedResponses ==
    { [kind |-> "exception", error |-> "timeout", status |-> 0, json_ok |-> FALSE, data |-> NoPubmedData],
      [kind |-> "response", error |-> "", status |-> 404, json_ok |-> FALSE, data |-> NoPubmedData],
      [kind |-> "response", error |-> "", status |-> HttpOk, json_ok |-> FALSE, data |-> NoPubmedData] }
    \cup { [kind |-> "response", error |-> "", status |-> HttpOk, json_ok |-> TRUE,
            data |-> [full_text_url |-> f, pdf_url |-> p]] :
             f \in {None, Some(UrlB1)}, p \in {None, Some(UrlB2)} }

\* The Service B responses the run of main is checked with.
PubmedResponsesMain ==
    { r \in PubmedResponses :
        \/ r.status = 404
        \/ r.json_ok /\ r.data.pdf_url = None }

CtPdf == <<"A","p","p","l","i","c","a","t","i","o","n","/","P","D","F">>
CtHtml == <<"t","e","x","t","/","h","t","m","l">>
CtLatin == <<"T","E","X","T","/","É","×">>
HtmlHead == <<"<","h","t","m">>

EmptyBody == [size |-> 0, head |-> <<>>]

Bodies ==
    { EmptyBody }
    \cup { [size |-> n, head |-> h] :
             n \in {MinPdfSize - 1, MinPdfSize, MinPdfSize + 1}, h \in {PdfSignature, HtmlHead} }

DownloadException == [kind |-> "exception", error |-> "timeout", status |-> 0,
                      content_type |-> <<>>, body |-> EmptyBody]

DownloadResponses ==
    { DownloadException }
    \cup { [kind |-> "response", error |-> "", status |-> s, content_type |-> <<>>, body |-> EmptyBody] :
             s \in {404, 500} }
    \cup { [kind |-> "response", error |-> "", status |-> HttpOk, content_type |-> c, body |-> b] :
             c \in {<<>>, CtPdf, CtHtml, CtLatin}, b \in Bodies }

\* The download responses the run of main is checked with: a 404, a PDF and
\* a PDF cut short.  With the file operations of IoOutcomesMain they give
\* every kind of row main records for a download: a success, an HTTP error,
\* a file too small, and an exception handled at line 172.
DownloadResponsesMain ==
    { r \in DownloadResponses :
        \/ r.status = 404
        \/ /\ r.status = HttpOk /\ r.content_type = CtPdf
           /\ r.body.head = PdfSignature
           /\ r.body.size \in {MinPdfSize - 1, MinPdfSize + 1} }

\* The outcomes of the file operations of download_pdf: whether open() or a
\* write raises (lines 141-149), whether the signature check raises (lines
\* 162-163), whether the os.remove of line 156 or 166 raises (a call reaches
\* one of the two at most), and whether the os.remove of the handler, line
\* 174, raises.  The two fail independently of each other.
IoOutcomes ==
    [write : {"ok", "open_raises", "write_raises"}, sig_fails : BOOLEAN,
     remove_fails : BOOLEAN, handler_remove_fails : BOOLEAN]

\* The run of main is checked with writes and signature checks that do not
\* raise.
IoOutcomesMain == { io \in IoOutcomes : io.write = "ok" /\ ~io.sig_fails }

\* What pdfs/ holds when a run starts (line 184 keeps what is there):
\* nothing, or files of an earlier run.
OldPdf == PdfsDir \o <<"o","l","d">> \o PdfSuffix
OldHead == <<"o","l","d","!">>

InitialFiles ==
    { [p \in {} |-> [size |-> 0, head |-> <<>>]],
      [p \in {OldPdf, Filename(test_doi)} |->
          IF p = OldPdf THEN [size |-> 1204, head |-> PdfSignature]
          ELSE [size |-> 7, head |-> OldHead]] }

----------------------------------------------------------------------------
(* State *)

VARIABLES
    pc,          \* where main is
    df_len,      \* len(df)
    references,  \* the DOIs main iterates over
    pdf_links,   \* their fallback links
    accepted,    \* what read_references returned, and whether the input was in error
    idx,         \* the number of references the loop has finished
    result,      \* the row of the current reference
    pdf_url,     \* the URL found for the current reference
    queried,     \* the services queried for the current reference and what each returned
    results,     \* the rows appended so far
    fs,          \* the files under pdfs/
    last_call,   \* the download_pdf call of the current reference
    summary,     \* the counts main prints at the end
    ua_resp,     \* search_unpaywall alone: the response it is given
    ua_url       \* search_unpaywall alone: what it returned

vars == <<pc, df_len, references, pdf_links, accepted, idx, result, pdf_url, queried,
          results, fs, last_call, summary, ua_resp, ua_url>>

NoFiles == [p \in {} |-> EmptyBody]

NoResult == [DOI |-> <<>>, PDF_Found |-> FALSE, Source |-> None,
             Download_Status |-> "Not attempted", File_Path |-> None, Error_Message |-> None]

NoCall == [called |-> FALSE, url |-> <<>>, save_path |-> <<>>, response |-> DownloadException,
           before |-> NoFiles, success |-> FALSE, message |-> "", branch |-> "",
           raised |-> FALSE]

FileAt(files, path) == IF Exists(files, path) THEN Some(files[path]) ELSE None

----------------------------------------------------------------------------
(* main *)

InSeq(x, seq) == \E k \in 1..Len(seq) : seq[k] = x

Min(a, b) == IF a <= b THEN a ELSE b

\* Line 207: zip(references, pdf_links) stops at the shorter list.
ZipLen(refs, links) == Min(Len(refs), Len(links))

\* A resolver loop without its break.
AfterUnpaywall_Mutant(url) == "pubmed"

\* Lines 220-232: after Service A, the loop breaks on a URL and goes on to
\* Service B otherwise.
AfterUnpaywall(url) == IF Truthy(url) THEN "fallback" ELSE "pubmed"

\* Lines 226-228.
RecordSource(res, url, source) ==
    IF Truthy(url)
    THEN [res EXCEPT !.Source = Some(source), !.PDF_Found = TRUE]
    ELSE res

\* A fallback that does not look at what the services found.
UseExcelLink_Mutant(url, pdf_link) == Truthy(pdf_link)

\* Line 235.
UseExcelLink(url, pdf_link) == ~Truthy(url) /\ Truthy(pdf_link)

\* A row that names the file whether or not the download succeeded.
RecordDownload_Mutant(res, filename, out) ==
    [res EXCEPT !.Download_Status = IF out.success THEN "Success" ELSE "Failed",
                !.File_Path = Some(filename),
                !.Error_Message = IF out.success THEN None ELSE Some(out.message)]

\* Lines 244-246.
RecordDownload(res, filename, out) ==
    [res EXCEPT !.Download_Status = IF out.success THEN "Success" ELSE "Failed",
                !.File_Path = IF out.success THEN Some(filename) ELSE None,
                !.Error_Message = IF out.success THEN None ELSE Some(out.message)]

\* Lines 253-254.
RecordNoUrl(res) ==
    [res EXCEPT !.Download_Status = "Failed", !.Error_Message = Some("No PDF URL found")]

RECURSIVE CountSuccess(_)
CountSuccess(rows) ==
    IF rows = <<>>
    THEN 0
    ELSE (IF Head(rows).Download_Status = "Success" THEN 1 ELSE 0) + CountSuccess(Tail(rows))

\* Lines 25-27 and 57-59: the spreadsheet is unreadable or has no DOI column.
InputError(file) == ~file.readable \/ DoiColumn(file.headers) = 0

\* Line 183: the spreadsheet is read.
ReadReferences ==
    /\ pc = "start"
    /\ \E file \in Files :
         LET r == read_references(file)
         IN /\ df_len' = r.df_len
            /\ references' = r.dois
            /\ pdf_links' = r.pdf_links
            /\ accepted' = [dois |-> r.dois, pdf_links |-> r.pdf_links,
                             input_error |-> InputError(file)]
    /\ pc' = "test_doi"
    /\ UNCHANGED <<idx, result, pdf_url, queried, results, fs, last_call, summary, ua_resp, ua_url>>

\* Lines 193-198: the test DOI is appended unless it is among the references.
AddTestDoi ==
    /\ pc = "test_doi"
    /\ IF ~InSeq(test_doi, references)
       THEN /\ references' = Append(references, test_doi)
            /\ pdf_links' = Append(pdf_links, None)
       ELSE UNCHANGED <<references, pdf_links>>
    /\ pc' = "loop"
    /\ UNCHANGED <<df_len, accepted, idx, result, pdf_url, queried, results, fs, last_call,
                   summary, ua_resp, ua_url>>

\* Lines 207-219: the loop takes the next reference.
StartReference ==
    /\ pc = "loop"
    /\ idx < ZipLen(references, pdf_links)
    /\ result' = [NoResult EXCEPT !.DOI = references[idx + 1]]
    /\ pdf_url' = None
    /\ queried' = <<>>
    /\ last_call' = NoCall
    /\ pc' = "unpaywall"
    /\ UNCHANGED <<df_len, references, pdf_links, accepted, idx, results, fs, summary,
                   ua_resp, ua_url>>

\* Lines 220-232, first iteration: Service A.
QueryUnpaywall ==
    /\ pc = "unpaywall"
    /\ \E resp \in UnpaywallResponsesMain :
         LET url == search_unpaywall(resp)
         IN /\ pdf_url' = url
            /\ result' = RecordSource(result, url, "Unpaywall")
            /\ pc' = AfterUnpaywall(url)
    /\ queried' = Append(queried, [service |-> "Unpaywall", url |-> pdf_url'])
    /\ UNCHANGED <<df_len, references, pdf_links, accepted, idx, results, fs, last_call,
                   summary, ua_resp, ua_url>>

\* Lines 220-232, second iteration: Service B.
QueryPubmed ==
    /\ pc = "pubmed"
    /\ \E resp \in PubmedResponsesMain :
         LET url == search_pubmed(resp)
         IN /\ pdf_url' = url
            /\ result' = RecordSource(result, url, "PubMed")
    /\ pc' = "fallback"
    /\ queried' = Append(queried, [service |-> "PubMed", url |-> pdf_url'])
    /\ UNCHANGED <<df_len, references, pdf_links, accepted, idx, results, fs, last_call,
                   summary, ua_resp, ua_url>>

\* Lines 234-239: the link of the spreadsheet.
ExcelFallback ==
    /\ pc = "fallback"
    /\ IF UseExcelLink(pdf_url, pdf_links[idx + 1])
       THEN /\ pdf_url' = pdf_links[idx + 1]
            /\ result' = [result EXCEPT !.Source = Some("Excel Link"), !.PDF_Found = TRUE]
       ELSE UNCHANGED <<pdf_url, result>>
    /\ pc' = "download"
    /\ UNCHANGED <<df_len, references, pdf_links, accepted, idx, queried, results, fs,
                   last_call, summary, ua_resp, ua_url>>

\* Lines 241-250 and 257: the download, and the row it gives.  Nothing in
\* main catches an exception that leaves download_pdf: the run ends there.
Download ==
    /\ pc = "download"
    /\ Truthy(pdf_url)
    /\ \E resp \in DownloadResponsesMain, io \in IoOutcomesMain :
         LET filename == Filename(result.DOI)
             out == download_pdf(fs, filename, resp, io)
         IN /\ fs' = out.fs
            /\ last_call' = [called |-> TRUE, url |-> pdf_url[1], save_path |-> filename,
                             response |-> resp, before |-> fs, success |-> out.success,
                             message |-> out.message, branch |-> out.branch,
                             raised |-> out.raised]
            /\ IF out.raised
               THEN /\ pc' = "aborted"
                    /\ UNCHANGED <<results, result, idx>>
               ELSE /\ results' = Append(results, RecordDownload(result, filename, out))
                    /\ result' = RecordDownload(result, filename, out)
                    /\ idx' = idx + 1
                    /\ pc' = "loop"
    /\ UNCHANGED <<df_len, references, pdf_links, accepted, pdf_url, queried, summary,
                   ua_resp, ua_url>>

\* Lines 251-257: no URL, no download.
NoUrl ==
    /\ pc = "download"
    /\ ~Truthy(pdf_url)
    /\ results' = Append(results, RecordNoUrl(result))
    /\ result' = RecordNoUrl(result)
    /\ idx' = idx + 1
    /\ pc' = "loop"
    /\ UNCHANGED <<df_len, references, pdf_links, accepted, pdf_url, queried, fs, last_call,
                   summary, ua_resp, ua_url>>

\* Lines 259-277: the report and the summary.
Report ==
    /\ pc = "loop"
    /\ idx >= ZipLen(references, pdf_links)
    /\ summary' = Some([total |-> Len(results),
                        successful |-> CountSuccess(results),
                        failed |-> Len(results) - CountSuccess(results)])
    /\ pc' = "done"
    /\ UNCHANGED <<df_len, references, pdf_links, accepted, idx, result, pdf_url, queried,
                   results, fs, last_call, ua_resp, ua_url>>

Init ==
    /\ pc = "start"
    /\ df_len = 0
    /\ references = <<>>
    /\ pdf_links = <<>>
    /\ accepted = [dois |-> <<>>, pdf_links |-> <<>>, input_error |-> FALSE]
    /\ idx = 0
    /\ result = NoResult
    /\ pdf_url = None
    /\ queried = <<>>
    /\ results = <<>>
    /\ fs \in InitialFiles
    /\ last_call = NoCall
    /\ summary = None
    /\ ua_resp = HttpException("")
    /\ ua_url = None

Next ==
    \/ ReadReferences
    \/ AddTestDoi
    \/ StartReference
    \/ QueryUnpaywall
    \/ QueryPubmed
    \/ ExcelFallback
    \/ Download
    \/ NoUrl
    \/ Report

Spec == Init /\ [][Next]_vars

----------------------------------------------------------------------------
(* download_pdf alone: any sequence of calls on one path *)

SavePaths == { Filename(test_doi) }

CallDownloadPdf ==
    /\ pc = "download_pdf"
    /\ \E path \in SavePaths, resp \in DownloadResponses, io \in IoOutcomes :
         LET out == download_pdf(fs, path, resp, io)
         IN /\ fs' = out.fs
            /\ last_call' = [called |-> TRUE, url |-> <<>>, save_path |-> path,
                             response |-> resp, before |-> fs, success |-> out.success,
                             message |-> out.message, branch |-> out.branch,
                             raised |-> out.raised]
    /\ UNCHANGED <<pc, df_len, references, pdf_links, accepted, idx, result, pdf_url, queried,
                   results, summary, ua_resp, ua_url>>

InitDownload ==
    /\ pc = "download_pdf"
    /\ df_len = 0
    /\ references = <<>>
    /\ pdf_links = <<>>
    /\ accepted = [dois |-> <<>>, pdf_links |-> <<>>, input_error |-> FALSE]
    /\ idx = 0
    /\ result = NoResult
    /\ pdf_url = None
    /\ queried = <<>>
    /\ results = <<>>
    /\ fs \in InitialFiles
    /\ last_call = NoCall
    /\ summary = None
    /\ ua_resp = HttpException("")
    /\ ua_url = None

NextDownload == CallDownloadPdf

SpecDownload == InitDownload /\ [][NextDownload]_vars

----------------------------------------------------------------------------
(* search_unpaywall alone: one call on any response *)

CallSearchUnpaywall ==
    /\ pc = "search_unpaywall"
    /\ ua_url' = search_unpaywall(ua_resp)
    /\ pc' = "returned"
    /\ UNCHANGED <<df_len, references, pdf_links, accepted, idx, result, pdf_url, queried,
                   results, fs, last_call, summary, ua_resp>>

InitUnpaywall ==
    /\ pc = "search_unpaywall"
    /\ df_len = 0
    /\ references = <<>>
    /\ pdf_links = <<>>
    /\ accepted = [dois |-> <<>>, pdf_links |-> <<>>, input_error |-> FALSE]
    /\ idx = 0
    /\ result = NoResult
    /\ pdf_url = None
    /\ queried = <<>>
    /\ results = <<>>
    /\ fs = NoFiles
    /\ last_call = NoCall
    /\ summary = None
    /\ ua_resp \in UnpaywallResponses
    /\ ua_url = None

NextUnpaywall == CallSearchUnpaywall

SpecUnpaywall == InitUnpaywall /\ [][NextUnpaywall]_vars

----------------------------------------------------------------------------
(* Properties *)

\* The file at the path is at least 1000 bytes long and starts with %PDF.
IsValidPdf(files, path) ==
    /\ Exists(files, path)
    /\ files[path].size >= 1000
    /\ StartsWith(files[path].head, <<"%","P","D","F">>)

\* The loop has finished reference idx and not yet started the next one:
\* result, queried and last_call are those of reference idx.
Finished == pc \in {"loop", "done"} /\ idx >= 1

\* C1 as stated: after any call of download_pdf, no file exists at save_path
\* or the file there is at least 1000 bytes long and starts with %PDF, the
\* path where the signature check raised being the only exception.
C1_Original ==
    last_call.called =>
        \/ ~Exists(fs, last_call.save_path)
        \/ IsValidPdf(fs, last_call.save_path)
        \/ last_call.branch = "sig_check_failed"

\* C1 as amended: after any call of download_pdf that returns, no file exists
\* at save_path, or the call wrote nothing (status not 200, or an
\* unrecognised content type with a body of at most 1000 bytes) and the file
\* there is the one that was there before, or the file is at least 1000
\* bytes long; and a file the call wrote starts with %PDF unless the
\* signature check (or the removal that follows it) raised or the content
\* type was unrecognised (that body is written unchecked).  A call that does
\* not return, because the os.remove of the handler raised (line 174),
\* leaves the file it could not remove.
C1_Amended ==
    last_call.called =>
        \/ ~Exists(fs, last_call.save_path)
        \/ /\ last_call.branch \in {"http_error", "not_pdf"}
           /\ FileAt(fs, last_call.save_path) = FileAt(last_call.before, last_call.save_path)
        \/ /\ ~last_call.raised
           /\ fs[last_call.save_path].size >= 1000
           /\ \/ StartsWith(fs[last_call.save_path].head, <<"%","P","D","F">>)
              \/ last_call.branch \in {"sig_check_failed", "unknown_type"}
        \/ last_call.raised

\* A 999-byte body with an accepted content type replaced the file at the
\* path and was removed.
C1_Witness ==
    /\ last_call.called
    /\ last_call.branch = "too_small"
    /\ last_call.response.body.size = 999
    /\ Exists(last_call.before, last_call.save_path)
    /\ ~Exists(fs, last_call.save_path)

\* C2 as stated: at the end of a run, every row with Download_Status =
\* 'Success' has File_Path set, and the file at that path exists, is at
\* least 1000 bytes long and starts with %PDF.
C2_Claim ==
    pc = "done" =>
        \A k \in 1..Len(results) :
            results[k].Download_Status = "Success" =>
                /\ results[k].File_Path # None
                /\ IsValidPdf(fs, results[k].File_Path[1])

\* C3 as stated: the report has exactly one row per reference accepted by
\* read_references, in the order of the input, and no other rows.
C3_Claim ==
    pc = "done" =>
        /\ Len(results) = Len(accepted.dois)
        /\ \A k \in 1..Len(results) : results[k].DOI = accepted.dois[k]

\* C4: for every DOI the resolver loop queries Unpaywall before PubMed and
\* stops at the first service that returns a non-empty URL: once Unpaywall
\* has returned a URL, PubMed is not queried, and the URL downloaded and the
\* Source recorded are Unpaywall's.
C4_Priority ==
    /\ Len(queried) <= 2
    /\ Len(queried) >= 1 => queried[1].service = "Unpaywall"
    /\ Len(queried) = 2 => queried[2].service = "PubMed" /\ ~Truthy(queried[1].url)
    /\ (Len(queried) >= 1 /\ Truthy(queried[1].url)) =>
           /\ Len(queried) = 1
           /\ pdf_url = queried[1].url
           /\ result.Source = Some("Unpaywall")
           /\ last_call.called => last_call.url = queried[1].url[1]
    /\ (Len(queried) = 2 /\ Truthy(queried[2].url)) =>
           /\ pdf_url = queried[2].url
           /\ result.Source = Some("PubMed")

\* Unpaywall returned a URL, PubMed was not queried, and that URL was downloaded.
C4_Witness ==
    /\ Finished
    /\ Len(queried) = 1
    /\ Truthy(queried[1].url)
    /\ last_call.called
    /\ last_call.url = queried[1].url[1]
    /\ results[idx].Source = Some("Unpaywall")

\* C5: for every reference, the link of the spreadsheet is the URL
\* downloaded if and only if both services returned no URL and the
\* reference has a link; the row then has Source = 'Excel Link' and
\* PDF_Found = True, and the download is attempted against that link.
C5_Fallback ==
    Finished =>
        LET link == pdf_links[idx]
            row == results[idx]
            both_failed == /\ Len(queried) = 2
                           /\ ~Truthy(queried[1].url)
                           /\ ~Truthy(queried[2].url)
            used == /\ last_call.called
                    /\ link # None
                    /\ last_call.url = link[1]
        IN /\ used <=> (both_failed /\ link # None /\ link[1] # <<>>)
           /\ used => (row.Source = Some("Excel Link") /\ row.PDF_Found)
           /\ row.Source = Some("Excel Link") => used

\* Both services returned nothing and the link of the row was downloaded.
C5_Witness ==
    /\ Finished
    /\ Len(queried) = 2
    /\ pdf_links[idx] # None
    /\ last_call.called
    /\ last_call.url = pdf_links[idx][1]
    /\ results[idx].Source = Some("Excel Link")
    /\ results[idx].Download_Status = "Success"

\* C6 as stated: when the spreadsheet is unreadable or has no column whose
\* header contains 'doi', the set of references main processes is empty, no
\* lookup or download is performed, and the summary reports zero DOIs.
C6_Claim ==
    accepted.input_error =>
        /\ pc \notin {"unpaywall", "pubmed", "fallback", "download"}
        /\ queried = <<>>
        /\ ~last_call.called
        /\ results = <<>>
        /\ pc = "done" => summary = Some([total |-> 0, successful |-> 0, failed |-> 0])

\* C7: when the status of the download response is not 200, download_pdf
\* fails with the message 'HTTP error: <status>' and leaves the files as
\* they were, and main records Download_Status = 'Failed', File_Path = None
\* and that message for the reference.
C7_HttpError ==
    (last_call.called /\ last_call.response.kind = "response"
        /\ last_call.response.status # 200) =>
        /\ ~last_call.success
        /\ last_call.message = "HTTP error: " \o ToString(last_call.response.status)
        /\ fs = last_call.before
        /\ Finished =>
              /\ results[idx].Download_Status = "Failed"
              /\ results[idx].File_Path = None
              /\ results[idx].Error_Message =
                    Some("HTTP error: " \o ToString(last_call.response.status))

\* A 404 for a reference whose file name an earlier reference had written:
\* the row is Failed with 'HTTP error: 404' and the earlier file is still there.
C7_Witness ==
    /\ Finished
    /\ last_call.called
    /\ last_call.response.kind = "response"
    /\ last_call.response.status = 404
    /\ Exists(fs, last_call.save_path)
    /\ results[idx].Error_Message = Some("HTTP error: 404")

\* C8 as stated: at the end of a run, any two distinct rows with
\* Download_Status = 'Success' have distinct File_Path values, and the
\* number of files the Success rows left in pdfs/ equals their number.
C8_Claim ==
    pc = "done" =>
        /\ \A j, k \in 1..Len(results) :
              (j # k /\ results[j].Download_Status = "Success"
                     /\ results[k].Download_Status = "Success") =>
                  results[j].File_Path # results[k].File_Path
        /\ Cardinality({ p \in DOMAIN fs :
                           \E k \in 1..Len(results) :
                               /\ results[k].Download_Status = "Success"
                               /\ results[k].File_Path = Some(p) })
              = CountSuccess(results)

\* A URL field that is present: neither missing, null nor ''.
Present(v) == v # <<>> /\ v[1] # <<>>

\* The first entry of the list that has either field: its url_for_pdf, else its url.
RECURSIVE FirstUsable(_)
FirstUsable(locs) ==
    IF locs = <<>> THEN <<>>
    ELSE IF Present(Head(locs).url_for_pdf) THEN Head(locs).url_for_pdf
    ELSE IF Present(Head(locs).url) THEN Head(locs).url
    ELSE FirstUsable(Tail(locs))

\* What C9 says search_unpaywall returns for the payload of a 200 response.
C9_Expected ==
    LET data == ua_resp.data
    IN IF ~data.is_oa THEN <<>>
       ELSE IF Present(data.best.url_for_pdf) THEN data.best.url_for_pdf
       ELSE IF Present(data.best.url) THEN data.best.url
       ELSE FirstUsable(data.oa_locations)

\* C9 as stated: for a 200 response, search_unpaywall returns a URL only if
\* is_oa is true, and then the first present of best_oa_location.url_for_pdf,
\* best_oa_location.url and the first usable entry of oa_locations; when
\* best_oa_location carries neither field (absent, empty or null) the list
\* is still scanned.
C9_Claim ==
    (pc = "returned" /\ ua_resp.kind = "response" /\ ua_resp.status = 200 /\ ua_resp.json_ok) =>
        ua_url = C9_Expected

\* One row of the report is consistent.
RowConsistent(r) ==
    /\ r.Download_Status \in {"Success", "Failed"}
    /\ r.File_Path # None <=> r.Download_Status = "Success"
    /\ r.Error_Message # None <=> r.Download_Status = "Failed"
    /\ r.PDF_Found <=> r.Source # None
    /\ r.Error_Message = Some("No PDF URL found") <=> ~r.PDF_Found

\* C10: every row appended by main is consistent: the status is 'Success'
\* or 'Failed'; File_Path is set exactly when it is 'Success' and
\* Error_Message exactly when it is 'Failed'; PDF_Found is True exactly when
\* Source is set; Error_Message is 'No PDF URL found' exactly when PDF_Found
\* is False, and download_pdf was then not called for the reference.
C10_Rows ==
    /\ \A k \in 1..Len(results) : RowConsistent(results[k])
    /\ (Finished /\ ~results[idx].PDF_Found) => ~last_call.called

\* A report with a row that succeeded, a row whose download failed and a
\* row for which no URL was found.
C10_Witness ==
    /\ pc = "done"
    /\ \E k \in 1..Len(results) : results[k].Download_Status = "Success"
    /\ \E k \in 1..Len(results) :
          results[k].PDF_Found /\ results[k].Download_Status = "Failed"
    /\ \E k \in 1..Len(results) : results[k].Error_Message = Some("No PDF URL found")
    /\ ~last_call.called

====
